---------------------------- MODULE Spec2Model ----------------------------
(***************************************************************************)
(* Plagiarism check of the assignment grader                               *)
(* (app/backend/features/assignment_grade.py, check_plagiarism and the     *)
(* helpers it calls).                                                      *)
(*                                                                         *)
(* Numbers.  A similarity (a Python float in [0,1]) is the exact fraction  *)
(* [n, d] of two set sizes.  A percentage (a float rounded to 2 decimals)  *)
(* is an integer number of hundredths of a percent: 40.0 is 4000, 66.67 is *)
(* 6667.  A text is a sequence of one-character strings.  An Optional      *)
(* field is None or Some(x).                                               *)
(*                                                                         *)
(* Specifications.  Spec: one call of check_plagiarism.  SpecTwice: a      *)
(* second call on the same state.  SpecReordered: a second call with two   *)
(* submissions exchanged.  SpecSimilarity: one call of                     *)
(* calculate_text_similarity on any two bounded texts.                     *)
(*                                                                         *)
(* Environment.  The two lookups are given by what their services hold     *)
(* (webIndex, acadIndex) and by what a call does: it returns, fails inside *)
(* the lookup (which then returns []), or raises to the caller.  A file    *)
(* that download_and_parse_files could read is read again, with the same   *)
(* text, by the download loop of check_plagiarism.                         *)
(***************************************************************************)
EXTENDS Integers, Sequences, FiniteSets, TLC

\* ------------------------------------------------------------------ bounds

\* Submissions of the assignment in the database (ids 1..MaxSubs).
MaxSubs == 2
\* Lookup calls of one run that fail (internally or by raising).
MaxFaults == 1
\* Characters of a text handed to calculate_text_similarity on its own.
MaxLen == 3

\* --------------------------------------------------------------- constants

\* PLAGIARISM_THRESHOLD = 40.0 (a percentage).
PLAGIARISM_THRESHOLD == 40
\* round(x, 2): percentages are kept in hundredths.
Hundredths == 100
\* max_results=5 of both lookups.
MAX_RESULTS == 5

\* ---------------------------------------------------------------- optional

None == [some |-> FALSE]
Some(x) == [some |-> TRUE, val |-> x]
IsSome(o) == o.some

\* ------------------------------------------------------------------- texts

TxtEmpty == << >>
\* "a b c"
TxtA == <<"a", " ", "b", " ", "c">>
\* "a b d e"
TxtB == <<"a", " ", "b", " ", "d", " ", "e">>
\* "d e"
TxtC == <<"d", " ", "e">>
\* "A  B" (upper case, two blanks)
TxtD == <<"A", " ", " ", "B">>

Whitespace == {" ", "\t", "\n"}

\* str.lower(), character by character.
LowerChar(c) ==
    CASE c = "A" -> "a"
      [] c = "B" -> "b"
      [] c = "C" -> "c"
      [] c = "D" -> "d"
      [] c = "E" -> "e"
      [] OTHER -> c

Lower(text) == [k \in DOMAIN text |-> LowerChar(text[k])]

\* A faulty variant of SplitWords: text.split(" "), which cuts at every
\* blank and so yields the empty word between two blanks and at the ends.
RECURSIVE SplitWordsOnBlank(_, _, _)
SplitWordsOnBlank(s, cur, acc) ==
    IF s = << >> THEN acc \cup {cur}
    ELSE IF Head(s) = " "
         THEN SplitWordsOnBlank(Tail(s), << >>, acc \cup {cur})
         ELSE SplitWordsOnBlank(Tail(s), Append(cur, Head(s)), acc)

\* set(text.split()): the words between runs of whitespace.
RECURSIVE SplitWords(_, _, _)
SplitWords(s, cur, acc) ==
    IF s = << >>
    THEN IF cur = << >> THEN acc ELSE acc \cup {cur}
    ELSE IF Head(s) \in Whitespace
         THEN SplitWords(Tail(s), << >>, IF cur = << >> THEN acc ELSE acc \cup {cur})
         ELSE SplitWords(Tail(s), Append(cur, Head(s)), acc)

WordSet(text) == SplitWords(Lower(text), << >>, {})

\* A faulty variant of calculate_text_similarity: the intersection is divided
\* by len(words1) instead of len(union).
calculate_text_similarityContainment(text1, text2) ==
    LET words1 == WordSet(text1)
        words2 == WordSet(text2)
        intersection == words1 \cap words2
    IN  IF Cardinality(words1) = 0
        THEN [n |-> 0, d |-> 1]
        ELSE [n |-> Cardinality(intersection), d |-> Cardinality(words1)]

\* A faulty variant of calculate_text_similarity: the value is returned as a
\* percentage, as the callers keep it after `round(similarity * 100, 2)`.
calculate_text_similarityPercent(text1, text2) ==
    LET words1 == WordSet(text1)
        words2 == WordSet(text2)
        intersection == words1 \cap words2
        union == words1 \cup words2
    IN  IF Cardinality(union) = 0
        THEN [n |-> 0, d |-> 1]
        ELSE [n |-> 100 * Cardinality(intersection), d |-> Cardinality(union)]

\* A faulty variant of calculate_text_similarity: only text1 is lower-cased.
calculate_text_similarityLowerFirst(text1, text2) ==
    LET words1 == WordSet(text1)
        words2 == SplitWords(text2, << >>, {})
        intersection == words1 \cap words2
        union == words1 \cup words2
    IN  IF Cardinality(union) = 0
        THEN [n |-> 0, d |-> 1]
        ELSE [n |-> Cardinality(intersection), d |-> Cardinality(union)]

\* calculate_text_similarity: Jaccard similarity of the two word sets.
calculate_text_similarity(text1, text2) ==
    LET words1 == WordSet(text1)
        words2 == WordSet(text2)
        intersection == words1 \cap words2
        union == words1 \cup words2
    IN  IF Cardinality(union) = 0
        THEN [n |-> 0, d |-> 1]
        ELSE [n |-> Cardinality(intersection), d |-> Cardinality(union)]

Zero == [n |-> 0, d |-> 1]

\* a > b on fractions.
Greater(a, b) == a.n * b.d > b.n * a.d

\* max(a, b) of Python: b only when it is strictly greater.
MaxSim(a, b) == IF Greater(b, a) THEN b ELSE a

\* A faulty variant of RoundPercent: the digits after the second decimal are
\* cut off instead of rounded.
RoundPercentTruncated(s) == (s.n * 100 * Hundredths) \div s.d

\* round(similarity * 100, 2) in hundredths, ties to even.
RoundPercent(s) ==
    LET num == s.n * 100 * Hundredths
        q == num \div s.d
        r == num % s.d
    IN  IF 2 * r < s.d THEN q
        ELSE IF 2 * r > s.d THEN q + 1
        ELSE IF q % 2 = 0 THEN q ELSE q + 1

\* not x, for an Optional[str].
Falsy(content) == IF IsSome(content) THEN content.val = << >> ELSE TRUE

\* ----------------------------------------------------------------- formats

\* The two fraction digits of a float rounded to 2 decimals, as str() prints
\* them: "0", "5", "67", "05".
Fraction(f) ==
    IF f % 10 = 0 THEN ToString(f \div 10)
    ELSE IF f < 10 THEN "0" \o ToString(f)
    ELSE ToString(f)

\* str(x) of a float given in hundredths: 4000 is "40.0", 6667 is "66.67".
FormatFloat(h) == ToString(h \div Hundredths) \o "." \o Fraction(h % Hundredths)

\* ----------------------------------------------------------------- lookups

\* The results a search returns that pass `similarity > 0.1`, each as a
\* SourceMatch with its similarity rounded to a percentage.
RECURSIVE MatchSources(_, _)
MatchSources(text, pages) ==
    IF pages = << >> THEN << >>
    ELSE LET p == Head(pages)
             similarity == calculate_text_similarity(Lower(text), Lower(p.text))
         IN  (IF 10 * similarity.n > similarity.d
              THEN <<[url |-> p.url, similarity |-> RoundPercent(similarity)]>>
              ELSE << >>)
             \o MatchSources(text, Tail(pages))

Take(seq, k) == SubSeq(seq, 1, IF Len(seq) < k THEN Len(seq) ELSE k)

\* check_web_sources: the search's results scored against the text; any
\* failure inside it (kind "fail") is caught and gives [].
check_web_sources(text, index, kind) ==
    IF kind = "fail" THEN << >> ELSE MatchSources(text, Take(index, MAX_RESULTS))

\* check_academic_sources: the knowledge base's k nearest documents scored
\* against the text; any failure inside it gives [].
check_academic_sources(text, index, kind) ==
    IF kind = "fail" THEN << >> ELSE MatchSources(text, Take(index, MAX_RESULTS))

\* max([s.similarity for s in sources]) of a non-empty list.
RECURSIVE MaxSimilarityOf(_)
MaxSimilarityOf(sources) ==
    IF Len(sources) = 1 THEN sources[1].similarity
    ELSE LET m == MaxSimilarityOf(Tail(sources))
         IN  IF sources[1].similarity >= m THEN sources[1].similarity ELSE m

\* ------------------------------------------------------ the check's steps

\* A faulty variant of SkipSelf: a submission is compared with itself too.
SkipSelfNever(other_sub_id, submission_id) == FALSE

\* `if other_sub_id == current_submission.submission_id: continue`
SkipSelf(other_sub_id, submission_id) == other_sub_id = submission_id

\* A faulty variant of MaxSimilarityLoop: `break` instead of `continue` at
\* the submission itself.
RECURSIVE MaxSimilarityLoopBreakOnSelf(_, _, _, _)
MaxSimilarityLoopBreakOnSelf(items, submission_id, current_content, max_similarity) ==
    IF items = << >> THEN max_similarity
    ELSE LET other == Head(items)
         IN  IF other.id = submission_id
             THEN max_similarity
             ELSE IF other.content = << >>
             THEN MaxSimilarityLoopBreakOnSelf(Tail(items), submission_id,
                                               current_content, max_similarity)
             ELSE MaxSimilarityLoopBreakOnSelf(Tail(items), submission_id,
                      current_content,
                      MaxSim(max_similarity,
                             calculate_text_similarity(current_content, other.content)))

\* The loop over all_submission_contents.items() that keeps the largest
\* similarity of the current text to another submission's text.
RECURSIVE MaxSimilarityLoop(_, _, _, _)
MaxSimilarityLoop(items, submission_id, current_content, max_similarity) ==
    IF items = << >> THEN max_similarity
    ELSE LET other == Head(items)
         IN  IF SkipSelf(other.id, submission_id)
             THEN MaxSimilarityLoop(Tail(items), submission_id, current_content,
                                    max_similarity)
             ELSE IF other.content = << >>
             THEN MaxSimilarityLoop(Tail(items), submission_id, current_content,
                                    max_similarity)
             ELSE MaxSimilarityLoop(Tail(items), submission_id, current_content,
                      MaxSim(max_similarity,
                             calculate_text_similarity(current_content, other.content)))

\* A faulty variant of MergeScore: a signal that is present replaces the
\* percentage without being compared to it.
MergeScoreLastWins(plagiarism_percentage, web, academic) ==
    LET p1 == IF web # << >> THEN MaxSimilarityOf(web) ELSE plagiarism_percentage
    IN  IF academic # << >> THEN MaxSimilarityOf(academic) ELSE p1

\* The percentage raised to the best web and then the best academic
\* similarity, each only when strictly greater.
MergeScore(plagiarism_percentage, web, academic) ==
    LET p1 == IF web # << >> /\ MaxSimilarityOf(web) > plagiarism_percentage
              THEN MaxSimilarityOf(web) ELSE plagiarism_percentage
    IN  IF academic # << >> /\ MaxSimilarityOf(academic) > p1
        THEN MaxSimilarityOf(academic) ELSE p1

\* A faulty variant of Exceeds: the threshold itself already counts.
ExceedsOrEqual(plagiarism_percentage) ==
    plagiarism_percentage >= PLAGIARISM_THRESHOLD * Hundredths

\* `plagiarism_percentage > PLAGIARISM_THRESHOLD`
Exceeds(plagiarism_percentage) ==
    plagiarism_percentage > PLAGIARISM_THRESHOLD * Hundredths

\* original_score of the override message.
OriginalScore(current_grade) ==
    IF IsSome(current_grade) THEN FormatFloat(current_grade.val.total_score) ELSE "N/A"

\* The RubricGrade that replaces the grade of a submission over the threshold.
ZeroGrade(plagiarism_percentage, current_grade) ==
    [total_score |-> 0,
     reason |-> "Grade set to 0 due to high plagiarism score ("
                \o FormatFloat(plagiarism_percentage)
                \o "% similarity, threshold: "
                \o FormatFloat(PLAGIARISM_THRESHOLD * Hundredths)
                \o "%). Original grade was "
                \o OriginalScore(current_grade) \o "."]

\* A faulty variant of GradeAfterCheck: only an existing grade is replaced.
GradeAfterCheckIfGraded(plagiarism_percentage, current_grade) ==
    IF Exceeds(plagiarism_percentage) /\ IsSome(current_grade)
    THEN Some(ZeroGrade(plagiarism_percentage, current_grade))
    ELSE current_grade

\* The grade after the threshold test.
GradeAfterCheck(plagiarism_percentage, current_grade) ==
    IF Exceeds(plagiarism_percentage)
    THEN Some(ZeroGrade(plagiarism_percentage, current_grade))
    ELSE current_grade

\* The closing verification: a grade over the threshold that is not 0 is
\* forced to 0 (with the shorter message).
VerifiedGrade(plagiarism_percentage, grade) ==
    IF IsSome(grade) /\ Exceeds(plagiarism_percentage) /\ grade.val.total_score # 0
    THEN Some([total_score |-> 0,
               reason |-> "Grade set to 0 due to high plagiarism score ("
                          \o FormatFloat(plagiarism_percentage)
                          \o "% similarity, threshold: "
                          \o FormatFloat(PLAGIARISM_THRESHOLD * Hundredths)
                          \o "%)."])
    ELSE grade

\* `x if x else None` of a source list.
NoneIfEmpty(sources) == IF sources = << >> THEN None ELSE Some(sources)

\* A faulty variant of CheckedSubmission: file_content is not passed on and
\* takes its default None.
CheckedSubmissionNoContent(sub, plagiarism_percentage, web, academic) ==
    [submission_id |-> sub.submission_id,
     file_url |-> sub.file_url,
     file_content |-> None,
     plagerism_score |-> Some(plagiarism_percentage),
     total_score |-> VerifiedGrade(plagiarism_percentage,
                        GradeAfterCheck(plagiarism_percentage, sub.total_score)),
     web_sources |-> NoneIfEmpty(web),
     academic_sources |-> NoneIfEmpty(academic)]

\* Submissions(...) of a submission that has content.
CheckedSubmission(sub, plagiarism_percentage, web, academic) ==
    [submission_id |-> sub.submission_id,
     file_url |-> sub.file_url,
     file_content |-> sub.file_content,
     plagerism_score |-> Some(plagiarism_percentage),
     total_score |-> VerifiedGrade(plagiarism_percentage,
                        GradeAfterCheck(plagiarism_percentage, sub.total_score)),
     web_sources |-> NoneIfEmpty(web),
     academic_sources |-> NoneIfEmpty(academic)]

\* A faulty variant of EmptyContentSubmission: plagerism_score is not set.
EmptyContentSubmissionNoScore(sub) ==
    [submission_id |-> sub.submission_id,
     file_url |-> sub.file_url,
     file_content |-> sub.file_content,
     plagerism_score |-> sub.plagerism_score,
     total_score |-> sub.total_score,
     web_sources |-> None,
     academic_sources |-> None]

\* Submissions(...) of a submission without content: score 0.0, grade kept.
EmptyContentSubmission(sub) ==
    [submission_id |-> sub.submission_id,
     file_url |-> sub.file_url,
     file_content |-> sub.file_content,
     plagerism_score |-> Some(0),
     total_score |-> sub.total_score,
     web_sources |-> None,
     academic_sources |-> None]

\* Submissions(...) of every submission when fewer than 2 files were
\* downloaded: score 0.0, grade kept.
SkippedSubmission(sub) ==
    [submission_id |-> sub.submission_id,
     file_url |-> sub.file_url,
     file_content |-> sub.file_content,
     plagerism_score |-> Some(0),
     total_score |-> sub.total_score,
     web_sources |-> None,
     academic_sources |-> None]

\* ------------------------------------------------------------------- state

VARIABLES
    \* state['submission_ids']: the graded submissions, as grade_submissions
    \* left them.
    submissions,
    \* The module's supabase client and what the query for the assignment's
    \* submissions does: "ok", "no_client", "no_rows", "error".
    dbStatus,
    \* The rows of the assignment in the submissions table, each with the file
    \* behind its file_url.
    dbRows,
    \* What the web search and the knowledge base hold.
    webIndex, acadIndex,
    \* Where check_plagiarism stands: "start", "loop", "web", "academic",
    \* "merge", "done".
    pc,
    \* The locals of check_plagiarism.
    all_submission_contents, i, plagiarism_percentage, web_sources,
    academic_sources, updated_submissions,
    \* The value returned under "submission_ids".
    result,
    \* The return taken: "", "failopen", "skipped", "checked".
    path,
    \* Per input position, what each lookup call did ("none" before the call,
    \* then "ok", "fail" or "raise"), and how often it was called.
    webLog, acadLog, webCalls, acadCalls,
    \* Per input position, the percentage of the internal comparison alone.
    internalLog,
    \* Failed lookup calls so far.
    faults,
    \* The first run's result, once a second run was started.
    firstResult,
    \* A call of calculate_text_similarity on its own: its arguments (None for
    \* an absent text), where it stands ("idle", "call", "returned", "raised")
    \* and the value it returned.
    text1, text2, simPc, simReturn,
    \* The exception that reached the except clause of check_plagiarism: "",
    \* "query" (the query for the assignment's submissions) or "evaluation"
    \* (a statement of the loop over the submissions).
    raised,
    \* The environment of a lookup called on its own: the SerpAPI key and what
    \* the two search engines answer; the Qdrant settings and what the
    \* knowledge base answers.
    webEnv, acadEnv,
    \* The graph: the node to run next, the nodes that have run, and what
    \* the download and the grader will give for every fetched submission.
    stage, ran, planned,
    \* /grade-assignment after the graph: its two counters and the rows
    \* update_submission_grade has written.
    graded_count, failed_count, written

vars == <<submissions, dbStatus, dbRows, webIndex, acadIndex, pc,
          all_submission_contents, i, plagiarism_percentage, web_sources,
          academic_sources, updated_submissions, result, path, webLog, acadLog,
          webCalls, acadCalls, internalLog, faults, firstResult,
          text1, text2, simPc, simReturn, raised, webEnv, acadEnv,
          stage, ran, planned, graded_count, failed_count, written>>

lookupVars == <<webEnv, acadEnv>>

graphVars == <<stage, ran, planned>>

endpointVars == <<graded_count, failed_count, written>>

outerVars == <<lookupVars, graphVars, endpointVars>>

simVars == <<text1, text2, simPc, simReturn>>

inputs == <<submissions, dbStatus, dbRows, webIndex, acadIndex>>

\* ------------------------------------------------------------------ inputs

Ids == 1 .. MaxSubs

\* A grade of grade_submissions: RubricGrade(total_score=85.0, reason=...).
AiGrade == [total_score |-> 85 * Hundredths, reason |-> "Good work."]

\* One submission of the assignment, as the stages before the check leave it.
\* grade_submissions grades only submissions with content, and the grading
\* itself may fail, so a grade implies content.
Absent == [present |-> FALSE, graded |-> FALSE, has_url |-> FALSE, dl_ok |-> FALSE,
           file |-> TxtEmpty, file_content |-> None, total_score |-> None]

Peer(t) == [present |-> TRUE, graded |-> FALSE, has_url |-> TRUE, dl_ok |-> TRUE,
            file |-> t, file_content |-> None, total_score |-> None]

Graded(t, g) == [present |-> TRUE, graded |-> TRUE, has_url |-> TRUE, dl_ok |-> TRUE,
                 file |-> t, file_content |-> Some(t), total_score |-> g]

GradedNoUrl == [present |-> TRUE, graded |-> TRUE, has_url |-> FALSE, dl_ok |-> FALSE,
                file |-> TxtEmpty, file_content |-> None, total_score |-> None]

GradedBrokenUrl == [present |-> TRUE, graded |-> TRUE, has_url |-> TRUE, dl_ok |-> FALSE,
                    file |-> TxtEmpty, file_content |-> None, total_score |-> None]

Kinds ==
    {Absent, Peer(TxtA), Peer(TxtB),
     GradedNoUrl, GradedBrokenUrl, Graded(TxtEmpty, None),
     Graded(TxtA, None), Graded(TxtA, Some(AiGrade)), Graded(TxtB, Some(AiGrade)),
     Graded(TxtC, Some(AiGrade))}

\* The Submissions object fetch_submission_ids, download_and_parse_files and
\* grade_submissions build for row k.
InputSubmission(k, kind) ==
    [submission_id |-> k,
     file_url |-> IF kind.has_url THEN Some(k) ELSE None,
     file_content |-> kind.file_content,
     plagerism_score |-> None,
     total_score |-> kind.total_score,
     web_sources |-> None,
     academic_sources |-> None]

RECURSIVE InputList(_, _)
InputList(world, k) ==
    IF k > MaxSubs THEN << >>
    ELSE (IF world[k].graded THEN <<InputSubmission(k, world[k])>> ELSE << >>)
         \o InputList(world, k + 1)

RECURSIVE RowList(_, _)
RowList(world, k) ==
    IF k > MaxSubs THEN << >>
    ELSE (IF world[k].present
          THEN <<[id |-> k, file_url |-> IF world[k].has_url THEN Some(k) ELSE None,
                  dl_ok |-> world[k].dl_ok, text |-> world[k].file]>>
          ELSE << >>)
         \o RowList(world, k + 1)

PageA == [url |-> "https://web.example/a", text |-> TxtA]
PageB == [url |-> "https://web.example/b", text |-> TxtB]
DocD == [url |-> "knowledge_base", text |-> TxtD]

\* What the two lookups can find: nothing, one web page, one document of the
\* knowledge base, or two web pages and a document.
Indexes ==
    {[web |-> << >>, academic |-> << >>],
     [web |-> <<PageB>>, academic |-> << >>],
     [web |-> << >>, academic |-> <<DocD>>],
     [web |-> <<PageA, PageB>>, academic |-> <<DocD>>]}

\* No lookup is called on its own, and /grade-assignment has not begun to
\* persist.
LookupsIdle == webEnv = None /\ acadEnv = None

EndpointIdle == graded_count = 0 /\ failed_count = 0 /\ written = << >>

\* The nodes of the graph, in the order of its edges from START to END.
StageOrder ==
    <<"fetch_submission_ids", "fetch_rubric", "fetch_questions",
      "download_and_parse_files", "grade_submissions", "check_plagiarism">>

NoLog == [k \in Ids |-> "none"]
NoCalls == [k \in Ids |-> 0]

Init ==
    /\ \E world \in [Ids -> Kinds] :
          /\ submissions = InputList(world, 1)
          /\ dbRows = RowList(world, 1)
    /\ dbStatus \in {"ok", "no_client", "no_rows", "error"}
    \* Without a client fetch_submission_ids has returned no submission.
    /\ dbStatus = "no_client" => submissions = << >>
    \* The indexes are consulted only after a successful query.
    /\ \E index \in IF dbStatus = "ok" THEN Indexes
                     ELSE {[web |-> << >>, academic |-> << >>]} :
          /\ webIndex = index.web
          /\ acadIndex = index.academic
    /\ pc = "start"
    /\ all_submission_contents = << >>
    /\ i = 1
    /\ plagiarism_percentage = 0
    /\ web_sources = << >>
    /\ academic_sources = << >>
    /\ updated_submissions = << >>
    /\ result = << >>
    /\ path = ""
    /\ webLog = NoLog
    /\ acadLog = NoLog
    /\ webCalls = NoCalls
    /\ acadCalls = NoCalls
    /\ internalLog = NoCalls
    /\ faults = 0
    /\ firstResult = None
    /\ text1 = None
    /\ text2 = None
    /\ simPc = "idle"
    /\ simReturn = Zero
    /\ raised = ""
    /\ LookupsIdle
    /\ stage = "check_plagiarism"
    /\ ran = Take(StageOrder, 5)
    /\ planned = submissions
    /\ EndpointIdle

\* ----------------------------------------------------------------- actions

\* The loop over all_submissions_response.data: the text of every row that
\* has a file_url and whose download succeeds, in row order.
RECURSIVE Downloaded(_)
Downloaded(rows) ==
    IF rows = << >> THEN << >>
    ELSE (IF IsSome(Head(rows).file_url) /\ Head(rows).dl_ok
          THEN <<[id |-> Head(rows).id, content |-> Head(rows).text]>>
          ELSE << >>)
         \o Downloaded(Tail(rows))

\* A faulty variant of QueryData: the query is filtered to the submissions
\* under grading, as the one of fetch_submission_ids is.
QueryDataGradedOnly ==
    LET IsInput(row) ==
            \E m \in DOMAIN submissions : submissions[m].submission_id = row.id
    IN  IF dbStatus = "no_rows" THEN << >> ELSE SelectSeq(dbRows, IsInput)

\* all_submissions_response.data
QueryData == IF dbStatus = "no_rows" THEN << >> ELSE dbRows

\* The locals of a call that has not reached the loop body, or has returned.
ResetLocals ==
    /\ plagiarism_percentage' = 0
    /\ web_sources' = << >>
    /\ academic_sources' = << >>

\* `if not supabase: return {"submission_ids": submissions}`
StartNoClient ==
    /\ pc = "start"
    /\ dbStatus = "no_client"
    /\ result' = submissions
    /\ path' = "failopen"
    /\ pc' = "done"
    /\ UNCHANGED <<outerVars, raised, simVars, inputs, all_submission_contents, i, plagiarism_percentage,
                   web_sources, academic_sources, updated_submissions, webLog,
                   acadLog, webCalls, acadCalls, internalLog, faults, firstResult>>

\* The query raises: control passes to the function's except clause.
StartQueryError ==
    /\ pc = "start"
    /\ dbStatus = "error"
    /\ pc' = "except"
    /\ raised' = "query"
    /\ UNCHANGED <<outerVars, simVars, inputs, all_submission_contents, i, plagiarism_percentage,
                   web_sources, academic_sources, updated_submissions, result, path,
                   webLog, acadLog, webCalls, acadCalls, internalLog, faults,
                   firstResult>>

\* `if not all_submissions_response.data: return {"submission_ids": submissions}`
StartNoRows ==
    /\ pc = "start"
    /\ dbStatus \in {"ok", "no_rows"}
    /\ QueryData = << >>
    /\ result' = submissions
    /\ path' = "failopen"
    /\ pc' = "done"
    /\ UNCHANGED <<outerVars, raised, simVars, inputs, all_submission_contents, i, plagiarism_percentage,
                   web_sources, academic_sources, updated_submissions, webLog,
                   acadLog, webCalls, acadCalls, internalLog, faults, firstResult>>

\* `if len(all_submission_contents) < 2:` every submission is returned with
\* score 0.0 and its grade.
StartSkipped ==
    /\ pc = "start"
    /\ dbStatus = "ok"
    /\ QueryData # << >>
    /\ Len(Downloaded(QueryData)) < 2
    /\ all_submission_contents' = Downloaded(QueryData)
    /\ result' = [k \in DOMAIN submissions |-> SkippedSubmission(submissions[k])]
    /\ path' = "skipped"
    /\ pc' = "done"
    /\ UNCHANGED <<outerVars, raised, simVars, inputs, i, plagiarism_percentage, web_sources, academic_sources,
                   updated_submissions, webLog, acadLog, webCalls, acadCalls,
                   internalLog, faults, firstResult>>

\* At least 2 files were downloaded: the loop over the submissions begins.
StartLoop ==
    /\ pc = "start"
    /\ dbStatus = "ok"
    /\ QueryData # << >>
    /\ Len(Downloaded(QueryData)) >= 2
    /\ all_submission_contents' = Downloaded(QueryData)
    /\ updated_submissions' = << >>
    /\ i' = 1
    /\ pc' = "loop"
    /\ UNCHANGED <<outerVars, raised, simVars, inputs, plagiarism_percentage, web_sources, academic_sources,
                   result, path, webLog, acadLog, webCalls, acadCalls, internalLog,
                   faults, firstResult>>

Start == StartNoClient \/ StartQueryError \/ StartNoRows \/ StartSkipped \/ StartLoop

\* A faulty variant of ExceptReturn: the outcomes computed before the
\* exception are returned.
ExceptReturnEvaluated(subs, updated) == updated

\* What the except clause returns under "submission_ids".
ExceptReturn(subs, updated) == subs

\* `except Exception: return {"submission_ids": state['submission_ids']}`
OuterExcept ==
    /\ pc = "except"
    /\ result' = ExceptReturn(submissions, updated_submissions)
    /\ path' = "failopen"
    /\ pc' = "done"
    /\ ResetLocals
    /\ UNCHANGED <<outerVars, raised, simVars, inputs, all_submission_contents, i, updated_submissions, webLog,
                   acadLog, webCalls, acadCalls, internalLog, faults, firstResult>>

\* A faulty variant of AfterEmptyContent: `continue` without the append.
AfterEmptyContentNoAppend(updated, sub) == updated

\* updated_submissions after the branch of a submission without content.
AfterEmptyContent(updated, sub) == Append(updated, EmptyContentSubmission(sub))

\* `if not current_content:` score 0.0, grade kept, next submission.
EmptyContent ==
    /\ pc = "loop"
    /\ i <= Len(submissions)
    /\ Falsy(submissions[i].file_content)
    /\ updated_submissions' = AfterEmptyContent(updated_submissions, submissions[i])
    /\ i' = i + 1
    /\ UNCHANGED <<outerVars, raised, simVars, inputs, pc, all_submission_contents, plagiarism_percentage,
                   web_sources, academic_sources, result, path, webLog, acadLog,
                   webCalls, acadCalls, internalLog, faults, firstResult>>

\* The comparison with all other submissions, and its percentage.
Compare ==
    /\ pc = "loop"
    /\ i <= Len(submissions)
    /\ ~Falsy(submissions[i].file_content)
    /\ LET max_similarity ==
               MaxSimilarityLoop(all_submission_contents, submissions[i].submission_id,
                                 submissions[i].file_content.val, Zero)
       IN  /\ plagiarism_percentage' = RoundPercent(max_similarity)
           /\ internalLog' = [internalLog EXCEPT ![i] = RoundPercent(max_similarity)]
    /\ pc' = "web"
    /\ UNCHANGED <<outerVars, raised, simVars, inputs, all_submission_contents, i, web_sources, academic_sources,
                   updated_submissions, result, path, webLog, acadLog, webCalls,
                   acadCalls, faults, firstResult>>

\* What a lookup call may do: in a second run, what it did in the first.
CallKinds(log) ==
    IF IsSome(firstResult) /\ log[i] # "none" THEN {log[i]}
    ELSE {"ok"} \cup (IF faults < MaxFaults /\ ~IsSome(firstResult)
                      THEN {"fail", "raise"} ELSE {})

\* A faulty variant of AfterWebLookup: both lookups share one try block, so
\* a raising web lookup skips the academic one.
AfterWebLookupSkipAcademic(kind) == IF kind = "raise" THEN "merge" ELSE "academic"

\* A faulty variant of AfterAcademicLookup: the call has no try/except of its
\* own, so a raise reaches the function's except clause.
AfterAcademicLookupAbort(kind) == IF kind = "raise" THEN "except" ELSE "merge"

\* A faulty variant of AfterWebLookup: a web lookup that failed is called
\* again.
AfterWebLookupRetry(kind) == IF kind = "ok" THEN "academic" ELSE "web"

\* Where control goes after the try/except around check_web_sources.
AfterWebLookup(kind) == "academic"

\* Where control goes after the try/except around check_academic_sources.
AfterAcademicLookup(kind) == "merge"

\* A faulty variant of WebSourcesOnExcept: the handler only logs, so
\* web_sources keeps the value of the previous iteration.
WebSourcesOnExceptStale(previous) == previous

\* `except Exception as e: ... web_sources = []`
WebSourcesOnExcept(previous) == << >>

\* A faulty variant of AcademicSourcesOnExcept: the handler only logs, so
\* academic_sources keeps the value of the previous iteration.
AcademicSourcesOnExceptStale(previous) == previous

\* `except Exception as e: ... academic_sources = []`
AcademicSourcesOnExcept(previous) == << >>

\* try: web_sources = check_web_sources(...)  except Exception: web_sources = []
WebLookup ==
    /\ pc = "web"
    /\ \E kind \in CallKinds(webLog) :
          /\ web_sources' = IF kind = "raise" THEN WebSourcesOnExcept(web_sources)
                            ELSE check_web_sources(submissions[i].file_content.val,
                                                   webIndex, kind)
          /\ webLog' = [webLog EXCEPT ![i] = kind]
          /\ faults' = IF kind = "ok" THEN faults ELSE faults + 1
          /\ pc' = AfterWebLookup(kind)
    /\ webCalls' = [webCalls EXCEPT ![i] = @ + 1]
    /\ UNCHANGED <<outerVars, raised, simVars, inputs, all_submission_contents, i, plagiarism_percentage,
                   academic_sources, updated_submissions, result, path, acadLog,
                   acadCalls, internalLog, firstResult>>

\* try: academic_sources = check_academic_sources(...)
\* except Exception: academic_sources = []
AcademicLookup ==
    /\ pc = "academic"
    /\ \E kind \in CallKinds(acadLog) :
          /\ academic_sources' = IF kind = "raise"
                                 THEN AcademicSourcesOnExcept(academic_sources)
                                 ELSE check_academic_sources(
                                          submissions[i].file_content.val, acadIndex, kind)
          /\ acadLog' = [acadLog EXCEPT ![i] = kind]
          /\ faults' = IF kind = "ok" THEN faults ELSE faults + 1
          /\ pc' = AfterAcademicLookup(kind)
    /\ acadCalls' = [acadCalls EXCEPT ![i] = @ + 1]
    /\ UNCHANGED <<outerVars, raised, simVars, inputs, all_submission_contents, i, plagiarism_percentage,
                   web_sources, updated_submissions, result, path, webLog, webCalls,
                   internalLog, firstResult>>

\* A faulty variant of InputAfterMerge: the outcome is written into the
\* input submission.
InputAfterMergeInPlace(subs, k, updated_submission) ==
    [subs EXCEPT ![k] = updated_submission]

\* state['submission_ids'] after an iteration: Submissions(...) builds a new
\* object, the input list and its elements are not written.
InputAfterMerge(subs, k, updated_submission) == subs

\* The merge of the three signals, the threshold test and the new
\* Submissions object appended to updated_submissions.  The locals keep
\* their values into the next iteration.
Merge ==
    /\ pc = "merge"
    /\ LET score == MergeScore(plagiarism_percentage, web_sources, academic_sources)
           updated_submission ==
               CheckedSubmission(submissions[i], score, web_sources, academic_sources)
       IN  /\ updated_submissions' = Append(updated_submissions, updated_submission)
           /\ submissions' = InputAfterMerge(submissions, i, updated_submission)
           /\ plagiarism_percentage' = score
    /\ i' = i + 1
    /\ pc' = "loop"
    /\ UNCHANGED <<outerVars, raised, simVars, dbStatus, dbRows, webIndex, acadIndex,
                   all_submission_contents, web_sources, academic_sources, result, path, webLog, acadLog,
                   webCalls, acadCalls, internalLog, faults, firstResult>>

\* `return {"submission_ids": updated_submissions}`
Return ==
    /\ pc = "loop"
    /\ i > Len(submissions)
    /\ result' = updated_submissions
    /\ path' = "checked"
    /\ pc' = "done"
    /\ UNCHANGED <<outerVars, raised, simVars, inputs, all_submission_contents, i, plagiarism_percentage,
                   web_sources, academic_sources, updated_submissions, webLog,
                   acadLog, webCalls, acadCalls, internalLog, faults, firstResult>>

Next ==
    \/ Start
    \/ OuterExcept
    \/ EmptyContent
    \/ Compare
    \/ WebLookup
    \/ AcademicLookup
    \/ Merge
    \/ Return

Spec == Init /\ [][Next]_vars

\* check_plagiarism called once more on the same state, with lookups that do
\* what they did in the first call.
Rerun ==
    /\ pc = "done"
    /\ ~IsSome(firstResult)
    /\ firstResult' = Some(result)
    /\ pc' = "start"
    /\ all_submission_contents' = << >>
    /\ i' = 1
    /\ updated_submissions' = << >>
    /\ result' = << >>
    /\ path' = ""
    /\ webCalls' = NoCalls
    /\ acadCalls' = NoCalls
    /\ internalLog' = NoCalls
    /\ ResetLocals
    /\ UNCHANGED <<outerVars, raised, simVars, inputs, webLog, acadLog, faults>>

NextTwice == Next \/ Rerun

\* A statement of the loop over the submissions raises, as it does on a
\* state that does not hold what the loop expects (an object without the
\* attribute read at 559-561, a field Submissions(...) rejects at 653):
\* control passes to the function's except clause.
Unexpected ==
    /\ pc \in {"loop", "merge"}
    /\ i <= Len(submissions)
    /\ raised = ""
    /\ pc' = "except"
    /\ raised' = "evaluation"
    /\ UNCHANGED <<outerVars, simVars, inputs, all_submission_contents, i,
                   plagiarism_percentage, web_sources, academic_sources,
                   updated_submissions, result, path, webLog, acadLog, webCalls,
                   acadCalls, internalLog, faults, firstResult>>

NextUnexpected == Next \/ Unexpected

SpecUnexpected == Init /\ [][NextUnexpected]_vars

SpecTwice == Init /\ [][NextTwice]_vars

\* The orders in which a list of n submissions can be handed over instead:
\* any two of them exchanged (the exchanges generate every permutation).
Orders(n) ==
    {[k \in 1 .. n |-> IF k = a THEN b ELSE IF k = b THEN a ELSE k] :
        a \in 1 .. n, b \in 1 .. n} \ {[k \in 1 .. n |-> k]}

\* A per-position record of the lookups after the positions were permuted.
PermuteLog(log, p, n) == [k \in Ids |-> IF k <= n THEN log[p[k]] ELSE log[k]]

\* check_plagiarism called once more with the same submissions in another
\* order (the loop evaluates them in list order), the lookups of each
\* submission doing what they did in the first call.
Reorder ==
    /\ pc = "done"
    /\ ~IsSome(firstResult)
    /\ \E p \in Orders(Len(submissions)) :
          /\ submissions' = [k \in 1 .. Len(submissions) |-> submissions[p[k]]]
          /\ webLog' = PermuteLog(webLog, p, Len(submissions))
          /\ acadLog' = PermuteLog(acadLog, p, Len(submissions))
    /\ firstResult' = Some(result)
    /\ pc' = "start"
    /\ all_submission_contents' = << >>
    /\ i' = 1
    /\ updated_submissions' = << >>
    /\ result' = << >>
    /\ path' = ""
    /\ webCalls' = NoCalls
    /\ acadCalls' = NoCalls
    /\ internalLog' = NoCalls
    /\ ResetLocals
    /\ UNCHANGED <<outerVars, raised, simVars, dbStatus, dbRows, webIndex, acadIndex, faults>>

NextReordered == Next \/ Reorder

SpecReordered == Init /\ [][NextReordered]_vars

\* ---------------------------------------------------------------- the graph

\* A faulty variant of NextStage: the edges put check_plagiarism before
\* grade_submissions.
NextStageCheckBeforeGrade(n) ==
    CASE n = "START" -> "fetch_submission_ids"
      [] n = "fetch_submission_ids" -> "fetch_rubric"
      [] n = "fetch_rubric" -> "fetch_questions"
      [] n = "fetch_questions" -> "download_and_parse_files"
      [] n = "download_and_parse_files" -> "check_plagiarism"
      [] n = "check_plagiarism" -> "grade_submissions"
      [] n = "grade_submissions" -> "END"

\* The node the edge from n leads to.
NextStage(n) ==
    CASE n = "START" -> "fetch_submission_ids"
      [] n = "fetch_submission_ids" -> "fetch_rubric"
      [] n = "fetch_rubric" -> "fetch_questions"
      [] n = "fetch_questions" -> "download_and_parse_files"
      [] n = "download_and_parse_files" -> "grade_submissions"
      [] n = "grade_submissions" -> "check_plagiarism"
      [] n = "check_plagiarism" -> "END"

\* assignment_grader_graph.invoke with "submission_ids": []: no node has
\* run, and the rows, the files and the grader are as in Init.
InitGraph ==
    /\ \E world \in [Ids -> Kinds] :
          /\ planned = InputList(world, 1)
          /\ dbRows = RowList(world, 1)
    /\ submissions = << >>
    /\ dbStatus \in {"ok", "no_client", "no_rows", "error"}
    /\ dbStatus = "no_client" => planned = << >>
    /\ \E index \in IF dbStatus = "ok" THEN Indexes
                     ELSE {[web |-> << >>, academic |-> << >>]} :
          /\ webIndex = index.web
          /\ acadIndex = index.academic
    /\ pc = "start"
    /\ all_submission_contents = << >>
    /\ i = 1
    /\ plagiarism_percentage = 0
    /\ web_sources = << >>
    /\ academic_sources = << >>
    /\ updated_submissions = << >>
    /\ result = << >>
    /\ path = ""
    /\ webLog = NoLog
    /\ acadLog = NoLog
    /\ webCalls = NoCalls
    /\ acadCalls = NoCalls
    /\ internalLog = NoCalls
    /\ faults = 0
    /\ firstResult = None
    /\ text1 = None
    /\ text2 = None
    /\ simPc = "idle"
    /\ simReturn = Zero
    /\ raised = ""
    /\ LookupsIdle
    /\ stage = NextStage("START")
    /\ ran = << >>
    /\ EndpointIdle

\* Node n returns and the graph follows its edge; only
\* state['submission_ids'] may have been replaced.
RunNode(n) ==
    /\ stage = n
    /\ stage' = NextStage(n)
    /\ ran' = Append(ran, n)
    /\ UNCHANGED <<lookupVars, endpointVars, raised, simVars, planned, dbStatus,
                   dbRows, webIndex, acadIndex, pc, all_submission_contents, i,
                   plagiarism_percentage, web_sources, academic_sources,
                   updated_submissions, result, path, webLog, acadLog, webCalls,
                   acadCalls, internalLog, faults, firstResult>>

\* fetch_submission_ids: Submissions(submission_id, file_url) per row of the
\* teacher's students.
FetchSubmissionIds ==
    /\ RunNode("fetch_submission_ids")
    /\ submissions' = [k \in DOMAIN planned |->
                          [submission_id |-> planned[k].submission_id,
                           file_url |-> planned[k].file_url,
                           file_content |-> None,
                           plagerism_score |-> None,
                           total_score |-> None,
                           web_sources |-> None,
                           academic_sources |-> None]]

\* fetch_rubric returns {"rubric": ...}.
FetchRubric == RunNode("fetch_rubric") /\ UNCHANGED submissions

\* fetch_questions returns {"questions": ...}.
FetchQuestions == RunNode("fetch_questions") /\ UNCHANGED submissions

\* download_and_parse_files: file_content is set where the download and the
\* parsing succeed, the submission is kept as it is where they fail.
DownloadAndParseFiles ==
    /\ RunNode("download_and_parse_files")
    /\ submissions' = [k \in DOMAIN submissions |->
                          IF IsSome(planned[k].file_content)
                          THEN [submission_id |-> submissions[k].submission_id,
                                file_url |-> submissions[k].file_url,
                                file_content |-> planned[k].file_content,
                                plagerism_score |-> submissions[k].plagerism_score,
                                total_score |-> submissions[k].total_score,
                                web_sources |-> None,
                                academic_sources |-> None]
                          ELSE submissions[k]]

\* grade_submissions: a submission without content is kept as it is, and so
\* is one whose grading raises; the others get the grade of the grader in a
\* new Submissions object.
GradeSubmissions ==
    /\ RunNode("grade_submissions")
    /\ submissions' = [k \in DOMAIN submissions |->
                          IF Falsy(submissions[k].file_content)
                          THEN submissions[k]
                          ELSE IF IsSome(planned[k].total_score)
                          THEN [submission_id |-> submissions[k].submission_id,
                                file_url |-> submissions[k].file_url,
                                file_content |-> submissions[k].file_content,
                                plagerism_score |-> submissions[k].plagerism_score,
                                total_score |-> planned[k].total_score,
                                web_sources |-> None,
                                academic_sources |-> None]
                          ELSE submissions[k]]

\* The steps of check_plagiarism while the graph is at that node.
CheckPlagiarismRuns == stage = "check_plagiarism" /\ Next

\* check_plagiarism has returned: its list replaces state['submission_ids'].
CheckPlagiarismReturns ==
    /\ pc = "done"
    /\ RunNode("check_plagiarism")
    /\ submissions' = result

NextGraph ==
    \/ FetchSubmissionIds
    \/ FetchRubric
    \/ FetchQuestions
    \/ DownloadAndParseFiles
    \/ GradeSubmissions
    \/ CheckPlagiarismRuns
    \/ CheckPlagiarismReturns

SpecGraph == InitGraph /\ [][NextGraph]_vars

\* --------------------------------------------------------- /grade-assignment

\* PLAGIARISM_THRESHOLD of grade_assignment, a percentage.
GRADE_ASSIGNMENT_PLAGIARISM_THRESHOLD == 40

\* A total_score of the graph's result as grade_assignment reads it: a
\* RubricGrade ("pydantic"), a dict, or an object of another type.
GradeObject(format, grade, reason) ==
    Some([format |-> format, total_score |-> grade, reason |-> reason])

\* An element of result["submission_ids"] as grade_assignment reads it.
ResultItem(k, format, total_score, plagiarism) ==
    [format |-> format, submission_id |-> k, total_score |-> total_score,
     plagerism_score |-> plagiarism]

\* The elements the k-th position of a result may hold.
ResultItems(k) ==
    {ResultItem(k, "unknown", None, None),
     ResultItem(k, "pydantic", None, None),
     ResultItem(k, "pydantic", None, Some(6667)),
     ResultItem(k, "pydantic", GradeObject("pydantic", Some(8500), "Good work."), None),
     ResultItem(k, "pydantic", GradeObject("pydantic", Some(8500), "Good work."), Some(4000)),
     ResultItem(k, "pydantic", GradeObject("pydantic", Some(8500), "Good work."), Some(4001)),
     ResultItem(k, "pydantic", GradeObject("pydantic", Some(0), "Copied."), Some(10000)),
     ResultItem(k, "pydantic", GradeObject("pydantic", Some(8500), ""), Some(0)),
     ResultItem(k, "pydantic", GradeObject("pydantic", None, "Good work."), Some(0)),
     ResultItem(k, "pydantic", GradeObject("unknown", None, ""), None),
     ResultItem(k, "dict", GradeObject("dict", Some(8500), "Good work."), Some(6667))}

\* The lists of at most MaxSubs elements.
ResultLists ==
    UNION {{r \in [1 .. n -> UNION {ResultItems(k) : k \in Ids}] :
               \A k \in 1 .. n : r[k] \in ResultItems(k)} : n \in 0 .. MaxSubs}

\* The graph has returned `result` (its "submission_ids", which the input
\* of the graph always holds); the loop over it is about to begin.
InitEndpoint ==
    /\ result \in ResultLists
    /\ pc = "persist"
    /\ i = 1
    /\ EndpointIdle
    /\ submissions = << >>
    /\ dbRows = << >>
    /\ dbStatus = "ok"
    /\ webIndex = << >>
    /\ acadIndex = << >>
    /\ all_submission_contents = << >>
    /\ plagiarism_percentage = 0
    /\ web_sources = << >>
    /\ academic_sources = << >>
    /\ updated_submissions = << >>
    /\ path = ""
    /\ webLog = NoLog
    /\ acadLog = NoLog
    /\ webCalls = NoCalls
    /\ acadCalls = NoCalls
    /\ internalLog = NoCalls
    /\ faults = 0
    /\ firstResult = None
    /\ text1 = None
    /\ text2 = None
    /\ simPc = "idle"
    /\ simReturn = Zero
    /\ raised = ""
    /\ LookupsIdle
    /\ stage = "END"
    /\ ran = StageOrder
    /\ planned = << >>

\* What an iteration of the loop leaves alone besides the counters and the
\* table.
EndpointStep ==
    /\ pc = "persist"
    /\ i <= Len(result)
    /\ i' = i + 1
    /\ UNCHANGED <<lookupVars, graphVars, raised, simVars, inputs, pc,
                   all_submission_contents, plagiarism_percentage, web_sources,
                   academic_sources, updated_submissions, result, path, webLog,
                   acadLog, webCalls, acadCalls, internalLog, faults, firstResult>>

\* A faulty variant of FailedAfterNoGrade: `continue` without the count.
FailedAfterNoGradeUncounted(count) == count

\* failed_count after a submission without a grade.
FailedAfterNoGrade(count) == count + 1

\* Neither an object with submission_id nor a dict: counted as failed.
PersistUnknownFormat ==
    /\ EndpointStep
    /\ result[i].format = "unknown"
    /\ failed_count' = failed_count + 1
    /\ UNCHANGED <<graded_count, written>>

\* `if total_score_obj:` is false: counted as failed, nothing is written.
PersistNoGrade ==
    /\ EndpointStep
    /\ result[i].format # "unknown"
    /\ ~IsSome(result[i].total_score)
    /\ failed_count' = FailedAfterNoGrade(failed_count)
    /\ UNCHANGED <<graded_count, written>>

\* A total_score of an unknown type, or one whose grade is None: counted as
\* failed, nothing is written.
PersistInvalidGrade ==
    /\ EndpointStep
    /\ result[i].format # "unknown"
    /\ IsSome(result[i].total_score)
    /\ IF result[i].total_score.val.format = "unknown" THEN TRUE
       ELSE ~IsSome(result[i].total_score.val.total_score)
    /\ failed_count' = failed_count + 1
    /\ UNCHANGED <<graded_count, written>>

\* `plagiarism is not None and plagiarism > PLAGIARISM_THRESHOLD`
AbovePersistThreshold(plagiarism) ==
    IF IsSome(plagiarism)
    THEN plagiarism.val > GRADE_ASSIGNMENT_PLAGIARISM_THRESHOLD * Hundredths
    ELSE FALSE

\* A faulty variant of PersistedGrade: the grade of the result is written.
PersistedGradeOfResult(grade, plagiarism) == grade

\* The grade handed to update_submission_grade.
PersistedGrade(grade, plagiarism) ==
    IF AbovePersistThreshold(plagiarism) THEN 0 ELSE grade

\* The reason handed to update_submission_grade.
PersistedReason(grade, reason, plagiarism) ==
    LET given == IF reason = "" THEN "No reason provided" ELSE reason
    IN  IF AbovePersistThreshold(plagiarism) /\ grade # 0
        THEN "Grade set to 0 due to high plagiarism score ("
             \o FormatFloat(plagiarism.val) \o "% similarity, threshold: "
             \o FormatFloat(GRADE_ASSIGNMENT_PLAGIARISM_THRESHOLD * Hundredths)
             \o "%). " \o given
        ELSE given

\* update_data of update_submission_grade: plagiarism_score only when it is
\* not None.
UpdateData(submission_id, grade, grade_reason, plagiarism_score) ==
    [id |-> submission_id, grade |-> grade, grade_reason |-> grade_reason,
     plagiarism_score |-> plagiarism_score]

\* The grade passes the plagiarism rule and update_submission_grade is
\* called: it writes the row and returns True, or writes nothing and
\* returns False (no client, no row returned, an exception).
PersistGrade ==
    /\ EndpointStep
    /\ result[i].format # "unknown"
    /\ IsSome(result[i].total_score)
    /\ result[i].total_score.val.format # "unknown"
    /\ IsSome(result[i].total_score.val.total_score)
    /\ LET grade == result[i].total_score.val.total_score.val
           reason == result[i].total_score.val.reason
           plagiarism == result[i].plagerism_score
       IN  \E success \in BOOLEAN :
             IF success
             THEN /\ written' = Append(written,
                                       UpdateData(result[i].submission_id,
                                                  PersistedGrade(grade, plagiarism),
                                                  PersistedReason(grade, reason, plagiarism),
                                                  plagiarism))
                  /\ graded_count' = graded_count + 1
                  /\ UNCHANGED failed_count
             ELSE /\ failed_count' = failed_count + 1
                  /\ UNCHANGED <<graded_count, written>>

\* The loop is over: the response with graded_count and failed_count.
Respond ==
    /\ pc = "persist"
    /\ i > Len(result)
    /\ pc' = "responded"
    /\ UNCHANGED <<outerVars, raised, simVars, inputs, all_submission_contents, i,
                   plagiarism_percentage, web_sources, academic_sources,
                   updated_submissions, result, path, webLog, acadLog, webCalls,
                   acadCalls, internalLog, faults, firstResult>>

NextEndpoint ==
    \/ PersistUnknownFormat
    \/ PersistNoGrade
    \/ PersistInvalidGrade
    \/ PersistGrade
    \/ Respond

SpecEndpoint == InitEndpoint /\ [][NextEndpoint]_vars

\* ------------------------------------------- the lookups and their services

\* What a search answers to one request: status "ok" (HTTP 200, or the
\* documents of the knowledge base) with its results, "http_error" (another
\* status code) or "exception" (the request raises).
Answer(status, results) == [status |-> status, results |-> results]

SerpAnswers ==
    {Answer("ok", <<PageA, PageB>>), Answer("ok", << >>),
     Answer("http_error", << >>), Answer("exception", << >>)}

DdgAnswers ==
    {Answer("ok", <<PageB>>), Answer("ok", << >>),
     Answer("http_error", << >>), Answer("exception", << >>)}

QdrantAnswers == {Answer("ok", <<DocD>>), Answer("ok", << >>), Answer("exception", << >>)}

\* os.getenv("SERPAPI_API_KEY") is set or not, and the answers of SerpAPI and
\* of DuckDuckGo.
WebEnvs == [serpapi_key : BOOLEAN, serp : SerpAnswers, ddg : DdgAnswers]

\* QDRANT_URL and QDRANT_API_KEY are set or not, and the answer of Qdrant.
AcadEnvs == [qdrant_url : BOOLEAN, qdrant_api_key : BOOLEAN, qdrant : QdrantAnswers]

\* "ok" for an answer whose results are scored, "fail" for one that makes
\* the lookup return [].
KindOf(answer) == IF answer.status = "ok" THEN "ok" ELSE "fail"

\* The search check_web_sources returns from: SerpAPI when a key is set and
\* SerpAPI answers 200; DuckDuckGo when no key is set, and when SerpAPI
\* answers another status or raises.
WebEngine(env) ==
    IF env.serpapi_key /\ env.serp.status = "ok" THEN env.serp ELSE env.ddg

\* check_web_sources(text) in the environment env.
WebSourcesOf(text, env) ==
    check_web_sources(text, WebEngine(env).results, KindOf(WebEngine(env)))

\* A faulty variant of AcademicSourcesOf: the settings are not looked at.
AcademicSourcesOfAnyConfig(text, env) ==
    check_academic_sources(text, env.qdrant.results, KindOf(env.qdrant))

\* check_academic_sources(text) in the environment env: [] at once when
\* QDRANT_URL or QDRANT_API_KEY is not set.
AcademicSourcesOf(text, env) ==
    IF env.qdrant_url /\ env.qdrant_api_key
    THEN check_academic_sources(text, env.qdrant.results, KindOf(env.qdrant))
    ELSE << >>

\* The submissions of the runs that look at the lookups' services: graded
\* submissions with text, and other submissions of the assignment.
LookupKinds == {Peer(TxtB), Graded(TxtA, Some(AiGrade)), Graded(TxtC, Some(AiGrade))}

\* A run of check_plagiarism with a client and at least 2 downloaded
\* files, every graded submission with text, in any environment of the
\* lookups.
InitLookups ==
    /\ \E world \in [Ids -> LookupKinds] :
          /\ submissions = InputList(world, 1)
          /\ dbRows = RowList(world, 1)
    /\ submissions # << >>
    /\ Len(Downloaded(dbRows)) >= 2
    /\ dbStatus = "ok"
    /\ webIndex = << >>
    /\ acadIndex = << >>
    /\ pc = "start"
    /\ all_submission_contents = << >>
    /\ i = 1
    /\ plagiarism_percentage = 0
    /\ web_sources = << >>
    /\ academic_sources = << >>
    /\ updated_submissions = << >>
    /\ result = << >>
    /\ path = ""
    /\ webLog = NoLog
    /\ acadLog = NoLog
    /\ webCalls = NoCalls
    /\ acadCalls = NoCalls
    /\ internalLog = NoCalls
    /\ faults = 0
    /\ firstResult = None
    /\ text1 = None
    /\ text2 = None
    /\ simPc = "idle"
    /\ simReturn = Zero
    /\ raised = ""
    /\ webEnv \in WebEnvs
    /\ acadEnv \in AcadEnvs
    /\ stage = "check_plagiarism"
    /\ ran = Take(StageOrder, 5)
    /\ planned = submissions
    /\ EndpointIdle

\* try: web_sources = check_web_sources(...), the lookup running in webEnv.
\* Every failure inside it is caught inside it (771, 820-835, 839-841).
WebLookupEnv ==
    /\ pc = "web"
    /\ web_sources' = WebSourcesOf(submissions[i].file_content.val, webEnv)
    /\ webLog' = [webLog EXCEPT ![i] = KindOf(WebEngine(webEnv))]
    /\ webCalls' = [webCalls EXCEPT ![i] = @ + 1]
    /\ pc' = AfterWebLookup(KindOf(WebEngine(webEnv)))
    /\ UNCHANGED <<outerVars, raised, simVars, inputs, all_submission_contents, i,
                   plagiarism_percentage, academic_sources, updated_submissions,
                   result, path, acadLog, acadCalls, internalLog, faults,
                   firstResult>>

\* try: academic_sources = check_academic_sources(...), the lookup running
\* in acadEnv.  Every failure inside it is caught inside it (892-898).
AcademicLookupEnv ==
    /\ pc = "academic"
    /\ academic_sources' = AcademicSourcesOf(submissions[i].file_content.val, acadEnv)
    /\ acadLog' = [acadLog EXCEPT ![i] = KindOf(acadEnv.qdrant)]
    /\ acadCalls' = [acadCalls EXCEPT ![i] = @ + 1]
    /\ pc' = AfterAcademicLookup(KindOf(acadEnv.qdrant))
    /\ UNCHANGED <<outerVars, raised, simVars, inputs, all_submission_contents, i,
                   plagiarism_percentage, web_sources, updated_submissions, result,
                   path, webLog, webCalls, internalLog, faults, firstResult>>

NextLookups ==
    \/ StartLoop
    \/ Compare
    \/ WebLookupEnv
    \/ AcademicLookupEnv
    \/ Merge
    \/ Return

SpecLookups == InitLookups /\ [][NextLookups]_vars

\* ------------------------------------- calculate_text_similarity on its own

\* The characters of the texts: two words that differ, one of them in both
\* cases, and a blank.
SimAlphabet == {"a", "b", "B", " "}

\* All texts of at most MaxLen characters.
SimTexts == UNION {[1 .. n -> SimAlphabet] : n \in 0 .. MaxLen}

\* No check_plagiarism call is under way; the two arguments are any texts,
\* or None.
InitSimilarity ==
    /\ submissions = << >>
    /\ dbRows = << >>
    /\ dbStatus = "ok"
    /\ webIndex = << >>
    /\ acadIndex = << >>
    /\ pc = "idle"
    /\ all_submission_contents = << >>
    /\ i = 1
    /\ plagiarism_percentage = 0
    /\ web_sources = << >>
    /\ academic_sources = << >>
    /\ updated_submissions = << >>
    /\ result = << >>
    /\ path = ""
    /\ webLog = NoLog
    /\ acadLog = NoLog
    /\ webCalls = NoCalls
    /\ acadCalls = NoCalls
    /\ internalLog = NoCalls
    /\ faults = 0
    /\ firstResult = None
    /\ text1 \in {None} \cup {Some(t) : t \in SimTexts}
    /\ text2 \in {None} \cup {Some(t) : t \in SimTexts}
    /\ simPc = "call"
    /\ simReturn = Zero
    /\ raised = ""
    /\ LookupsIdle
    /\ stage = ""
    /\ ran = << >>
    /\ planned = << >>
    /\ EndpointIdle

checkVars == <<submissions, dbStatus, dbRows, webIndex, acadIndex, pc,
               all_submission_contents, i, plagiarism_percentage, web_sources,
               academic_sources, updated_submissions, result, path, webLog,
               acadLog, webCalls, acadCalls, internalLog, faults, firstResult,
               raised, outerVars>>

\* The call with two strings: the Jaccard similarity is returned.
SimilarityReturns ==
    /\ simPc = "call"
    /\ IsSome(text1)
    /\ IsSome(text2)
    /\ simReturn' = calculate_text_similarity(text1.val, text2.val)
    /\ simPc' = "returned"
    /\ UNCHANGED <<checkVars, text1, text2>>

\* The call with None for a text: `text1.lower()` (or `text2.lower()`) raises
\* AttributeError and nothing is returned.
SimilarityRaises ==
    /\ simPc = "call"
    /\ IF IsSome(text1) THEN ~IsSome(text2) ELSE TRUE
    /\ simPc' = "raised"
    /\ UNCHANGED <<checkVars, text1, text2, simReturn>>

NextSimilarity == SimilarityReturns \/ SimilarityRaises

SpecSimilarity == InitSimilarity /\ [][NextSimilarity]_vars

\* ------------------------------------------------------------------ claims

Threshold == PLAGIARISM_THRESHOLD * Hundredths

Done == pc = "done"

\* The text of the k-th input submission (which has content).
TextOf(k) == submissions[k].file_content.val

HasText(k) == ~Falsy(submissions[k].file_content)

\* The similarities of the k-th input submission to every other downloaded
\* submission that has text.
PeerSimilarities(k) ==
    {calculate_text_similarity(TextOf(k), all_submission_contents[j].content) :
        j \in {j \in DOMAIN all_submission_contents :
                  /\ all_submission_contents[j].id # submissions[k].submission_id
                  /\ all_submission_contents[j].content # << >>}}

\* The best pairwise similarity of the k-th input submission, as a percentage.
BestPeerPercent(k) ==
    IF PeerSimilarities(k) = {} THEN 0
    ELSE RoundPercent(CHOOSE s \in PeerSimilarities(k) :
                          \A t \in PeerSimilarities(k) : ~Greater(t, s))

\* The largest similarity of a list of sources, 0 if there is none.
BestOfSources(sources) ==
    IF sources = << >> THEN 0
    ELSE CHOOSE m \in {sources[j].similarity : j \in DOMAIN sources} :
             \A j \in DOMAIN sources : sources[j].similarity <= m

\* The largest similarity of an outcome's Optional source list, 0 if None.
BestOfAttached(opt) == IF IsSome(opt) THEN BestOfSources(opt.val) ELSE 0

Max3(a, b, c) ==
    IF a >= b /\ a >= c THEN a ELSE IF b >= c THEN b ELSE c

\* The override message for a score and an original grade.
OverrideMessage(score, original_grade) ==
    "Grade set to 0 due to high plagiarism score (" \o FormatFloat(score)
    \o "% similarity, threshold: 40.0%). Original grade was "
    \o (IF IsSome(original_grade) THEN FormatFloat(original_grade.val.total_score)
        ELSE "N/A")
    \o "."

\* C1: every returned outcome whose plagiarism score is strictly greater than
\* the threshold 40.0 has final grade 0.0 and a reason that states the
\* override and names the original grade, or 'N/A' when there was none.
C1_OverrideAboveThreshold ==
    Done =>
        \A k \in DOMAIN result :
            (IsSome(result[k].plagerism_score)
             /\ result[k].plagerism_score.val > Threshold)
            => /\ IsSome(result[k].total_score)
               /\ result[k].total_score.val.total_score = 0
               /\ result[k].total_score.val.reason =
                      OverrideMessage(result[k].plagerism_score.val,
                                      submissions[k].total_score)

\* Two outcomes over the threshold, one of a graded submission and one of a
\* submission without grade.
C1_Witness ==
    /\ Done
    /\ \E k1, k2 \in DOMAIN result :
          /\ IsSome(result[k1].plagerism_score)
          /\ result[k1].plagerism_score.val > Threshold
          /\ IsSome(submissions[k1].total_score)
          /\ IsSome(result[k2].plagerism_score)
          /\ result[k2].plagerism_score.val > Threshold
          /\ ~IsSome(submissions[k2].total_score)

\* C2: every returned outcome whose plagiarism score is less than or equal to
\* the threshold (40.0 included) keeps the submission's grade and reason; an
\* absent grade stays absent.
C2_GradeKeptAtOrBelowThreshold ==
    Done =>
        \A k \in DOMAIN result :
            (IsSome(result[k].plagerism_score)
             /\ result[k].plagerism_score.val <= Threshold)
            => result[k].total_score = submissions[k].total_score

\* An outcome with score exactly 40.0 from the comparison loop whose
\* submission was graded.
C2_Witness ==
    /\ Done
    /\ path = "checked"
    /\ \E k \in DOMAIN result :
          /\ result[k].plagerism_score = Some(Threshold)
          /\ IsSome(submissions[k].total_score)
          /\ result[k].total_score = submissions[k].total_score

\* What the web lookup of the k-th input submission handed to the check: the
\* scored results of a call that returned, [] of a call that failed.
WebResult(k) ==
    IF webLog[k] = "ok" THEN MatchSources(TextOf(k), Take(webIndex, MAX_RESULTS))
    ELSE << >>

\* The same for the academic lookup.
AcademicResult(k) ==
    IF acadLog[k] = "ok" THEN MatchSources(TextOf(k), Take(acadIndex, MAX_RESULTS))
    ELSE << >>

\* C3: the plagiarism score of every submission with text that carries one is
\* the maximum of its best pairwise percentage, the largest similarity among
\* its web sources (0 if none) and the largest among its academic sources
\* (0 if none), its sources being what its lookups handed to the check.
C3_ScoreIsMaxOfThree ==
    Done =>
        \A k \in DOMAIN result :
            (HasText(k) /\ IsSome(result[k].plagerism_score))
            => /\ result[k].web_sources = NoneIfEmpty(WebResult(k))
               /\ result[k].academic_sources = NoneIfEmpty(AcademicResult(k))
               /\ result[k].plagerism_score.val =
                      Max3(BestPeerPercent(k),
                           BestOfAttached(result[k].web_sources),
                           BestOfAttached(result[k].academic_sources))

\* An outcome with all three signals present, the web one the largest and
\* the academic one in between.
C3_Witness ==
    /\ Done
    /\ \E k \in DOMAIN result :
          /\ HasText(k)
          /\ IsSome(result[k].plagerism_score)
          /\ BestPeerPercent(k) > 0
          /\ IsSome(result[k].web_sources)
          /\ IsSome(result[k].academic_sources)
          /\ BestOfAttached(result[k].academic_sources) > BestPeerPercent(k)
          /\ BestOfAttached(result[k].web_sources)
                 > BestOfAttached(result[k].academic_sources)

WebFailed(k) == webLog[k] \in {"fail", "raise"}

AcademicFailed(k) == acadLog[k] \in {"fail", "raise"}

\* C4: when the web lookup of a submission raises, the academic lookup of
\* that submission is still called, its results are attached and count in
\* the plagiarism score, and the internal percentage is the one obtained with
\* an empty web result.
C4_WebRaiseIsolated ==
    Done =>
        \A k \in DOMAIN submissions :
            webLog[k] = "raise"
            => /\ k \in DOMAIN result
               /\ acadCalls[k] = 1
               /\ internalLog[k] = BestPeerPercent(k)
               /\ result[k].web_sources = None
               /\ result[k].academic_sources = NoneIfEmpty(AcademicResult(k))
               /\ result[k].plagerism_score =
                      Some(Max3(BestPeerPercent(k), 0, BestOfSources(AcademicResult(k))))

\* A submission whose web lookup raised, whose academic lookup found a source
\* above its non-zero internal percentage.
C4_Witness ==
    /\ Done
    /\ \E k \in DOMAIN result :
          /\ webLog[k] = "raise"
          /\ IsSome(result[k].academic_sources)
          /\ internalLog[k] > 0
          /\ result[k].plagerism_score.val > internalLog[k]

\* The outcome of the k-th input submission when every failed lookup is
\* replaced by one that returned an empty list.
OutcomeWithEmptyForFailed(k) ==
    IF HasText(k)
    THEN CheckedSubmission(submissions[k],
                           MergeScore(BestPeerPercent(k), WebResult(k), AcademicResult(k)),
                           WebResult(k), AcademicResult(k))
    ELSE EmptyContentSubmission(submissions[k])

\* C5: a failed lookup (web or academic, caught inside the lookup or raised
\* to the caller) does not abort the run: the run returns one outcome per
\* submission, each the outcome obtained with an empty list in place of the
\* failed lookup.
C5_LookupFailureDoesNotAbort ==
    (Done /\ \E k \in DOMAIN submissions : WebFailed(k) \/ AcademicFailed(k))
    => /\ path = "checked"
       /\ Len(result) = Len(submissions)
       /\ \A k \in DOMAIN result : result[k] = OutcomeWithEmptyForFailed(k)

\* A run in which the academic lookup of one submission raised and another
\* submission got its sources and its override.
C5_Witness ==
    /\ Done
    /\ \E k1, k2 \in DOMAIN result :
          /\ k1 # k2
          /\ acadLog[k1] = "raise"
          /\ IsSome(result[k2].web_sources)
          /\ result[k2].plagerism_score.val > Threshold
          /\ IsSome(submissions[k2].total_score)

\* C6: a submission without text always gets plagiarism score 0.0 and keeps
\* its grade.
C6_EmptyAlwaysScoredZero ==
    Done =>
        \A k \in DOMAIN result :
            ~HasText(k)
            => /\ result[k].plagerism_score = Some(0)
               /\ result[k].total_score = submissions[k].total_score

\* What holds of a submission without text: it keeps its grade on every
\* return and no lookup is called for it; on every return that is not the
\* fail-open one its plagiarism score is 0.0, whatever the other submissions
\* and the indexes hold, and on the fail-open return it carries no score.
C6_EmptyNotPenalised ==
    Done =>
        \A k \in DOMAIN result :
            ~HasText(k)
            => /\ result[k].total_score = submissions[k].total_score
               /\ webCalls[k] = 0
               /\ acadCalls[k] = 0
               /\ result[k].plagerism_score =
                      IF path = "failopen" THEN None ELSE Some(0)

\* A submission without text that went through the loop while another
\* submission of the assignment has text and both indexes hold sources.
C6_Witness ==
    /\ Done
    /\ path = "checked"
    /\ webIndex # << >>
    /\ acadIndex # << >>
    /\ \E k \in DOMAIN result :
          /\ ~HasText(k)
          /\ result[k].plagerism_score = Some(0)
          /\ \E j \in DOMAIN all_submission_contents :
                all_submission_contents[j].content # << >>

\* The submissions of the assignment that have text, by id.
IdsWithText ==
    {submissions[k].submission_id : k \in {k \in DOMAIN submissions : HasText(k)}}
    \cup {dbRows[j].id : j \in {j \in DOMAIN dbRows :
                                   /\ IsSome(dbRows[j].file_url)
                                   /\ dbRows[j].dl_ok
                                   /\ dbRows[j].text # << >>}}

\* C7: when exactly one submission of the assignment has text, the internal
\* percentage of every outcome is 0.0, and so is the score of every scored
\* outcome without sources.
C7_SingleTextInternalZero ==
    (Done /\ Cardinality(IdsWithText) = 1)
    => \A k \in DOMAIN result :
          /\ internalLog[k] = 0
          /\ (/\ IsSome(result[k].plagerism_score)
              /\ result[k].web_sources = None
              /\ result[k].academic_sources = None)
             => result[k].plagerism_score = Some(0)

\* The only submission with text went through the comparison loop, next to
\* a downloaded file without text.
C7_Witness ==
    /\ Done
    /\ path = "checked"
    /\ Cardinality(IdsWithText) = 1
    /\ \E k \in DOMAIN result : HasText(k) /\ webCalls[k] = 1

\* What a lookup gives for the text of the k-th input submission: [] when the
\* call failed, else the scored results of the index.
WebWouldGive(k) ==
    IF WebFailed(k) THEN << >> ELSE MatchSources(TextOf(k), Take(webIndex, MAX_RESULTS))

AcademicWouldGive(k) ==
    IF AcademicFailed(k) THEN << >>
    ELSE MatchSources(TextOf(k), Take(acadIndex, MAX_RESULTS))

\* C8: when fewer than 2 submissions of the assignment have text, the
\* pairwise comparison gives 0.0 but both lookups still run for each
\* submission with text: what they give for its text is attached and feeds
\* its score and the override.
C8_LookupsRunInDegenerateCase ==
    (Done /\ path # "failopen" /\ Cardinality(IdsWithText) < 2)
    => \A k \in DOMAIN result :
          HasText(k)
          => result[k] = CheckedSubmission(submissions[k],
                             MergeScore(0, WebWouldGive(k), AcademicWouldGive(k)),
                             WebWouldGive(k), AcademicWouldGive(k))

\* C9: every return of the check holds one outcome per input submission, in
\* input order and with the input's submission ids.
C9_OneOutcomePerInput ==
    Done =>
        /\ Len(result) = Len(submissions)
        /\ \A k \in DOMAIN result :
              result[k].submission_id = submissions[k].submission_id

\* A run through the loop over two submissions, one without text and one
\* with a failed lookup.
C9_Witness ==
    /\ Done
    /\ path = "checked"
    /\ Len(result) >= 2
    /\ \E k1, k2 \in DOMAIN result :
          /\ ~HasText(k1)
          /\ HasText(k2)
          /\ WebFailed(k2) \/ AcademicFailed(k2)

\* C10: a second run on the same submissions, with lookups that do what they
\* did in the first run, returns the list the first run returned.
C10_SecondRunSameResult ==
    (Done /\ IsSome(firstResult)) => result = firstResult.val

\* A second run has returned, after a first run with an override and a
\* failed lookup.
C10_Witness ==
    /\ Done
    /\ IsSome(firstResult)
    /\ path = "checked"
    /\ faults > 0
    /\ \E k \in DOMAIN result :
          /\ IsSome(submissions[k].total_score)
          /\ result[k].plagerism_score.val > Threshold

\* C11: a run on the same submissions in any other order gives every
\* submission the outcome (score, grade, reason, sources) it got in the run
\* in input order; an override of one submission changes no other outcome.
C11_OrderIndependent ==
    (Done /\ IsSome(firstResult))
    => /\ Len(result) = Len(firstResult.val)
       /\ \A k \in DOMAIN result :
             \E j \in DOMAIN firstResult.val : firstResult.val[j] = result[k]

\* A second run in swapped order has returned: one submission is overridden,
\* another one keeps its grade, and a lookup failed.
C11_Witness ==
    /\ Done
    /\ IsSome(firstResult)
    /\ path = "checked"
    /\ Len(result) >= 2
    /\ result[1].submission_id # firstResult.val[1].submission_id
    /\ faults > 0
    /\ \E k1, k2 \in DOMAIN result :
          /\ IsSome(submissions[k1].total_score)
          /\ result[k1].plagerism_score.val > Threshold
          /\ result[k1].total_score.val.total_score = 0
          /\ result[k2].plagerism_score.val <= Threshold
          /\ IsSome(result[k2].total_score)
          /\ result[k2].total_score = submissions[k2].total_score

\* C12: two graded submissions whose word-set Jaccard similarity exceeds
\* 0.40 both get a plagiarism score above 40 and final grade 0.0.
C12_SimilarPairBothPenalised ==
    Done =>
        \A k1, k2 \in DOMAIN result :
            (/\ k1 # k2
             /\ HasText(k1)
             /\ HasText(k2)
             /\ LET s == calculate_text_similarity(TextOf(k1), TextOf(k2))
                IN  10 * s.n > 4 * s.d)
            => /\ IsSome(result[k1].plagerism_score)
               /\ result[k1].plagerism_score.val > Threshold
               /\ IsSome(result[k1].total_score)
               /\ result[k1].total_score.val.total_score = 0

\* The rows of the assignment, other than the k-th input submission, whose
\* file has text.
OtherRowsWithText(k) ==
    {j \in DOMAIN dbRows : /\ dbRows[j].id # submissions[k].submission_id
                           /\ IsSome(dbRows[j].file_url)
                           /\ dbRows[j].dl_ok
                           /\ dbRows[j].text # << >>}

\* The k-th input submission has no word in common with any other
\* submission of the assignment.
SharesNoToken(k) ==
    \A j \in OtherRowsWithText(k) : WordSet(TextOf(k)) \cap WordSet(dbRows[j].text) = {}

\* C13: a submission that shares no token with any other submission of the
\* assignment has internal score 0.0 and, when its lookups find no source,
\* keeps its grade (and gets score 0.0 when scores are attached), whatever
\* happens to the other submissions of the run.
C13_DisjointKeepsGrade ==
    Done =>
        \A k \in DOMAIN result :
            (HasText(k) /\ SharesNoToken(k))
            => /\ internalLog[k] = 0
               /\ (WebResult(k) = << >> /\ AcademicResult(k) = << >>)
                  => /\ result[k].total_score = submissions[k].total_score
                     /\ result[k].plagerism_score \in {None, Some(0)}
                     /\ result[k].web_sources = None
                     /\ result[k].academic_sources = None

\* A graded submission without a word in common with its peer keeps its
\* grade while the peer, evaluated before it, is zeroed.
C13_Witness ==
    /\ Done
    /\ path = "checked"
    /\ \E k, k2 \in DOMAIN result :
          /\ k2 < k
          /\ HasText(k)
          /\ OtherRowsWithText(k) # {}
          /\ SharesNoToken(k)
          /\ IsSome(result[k].total_score)
          /\ result[k].total_score = submissions[k].total_score
          /\ result[k].plagerism_score = Some(0)
          /\ result[k2].plagerism_score.val > Threshold
          /\ result[k2].total_score.val.total_score = 0

\* The largest similarity of the k-th input submission's text to the text of
\* another row, as a percentage; 0.0 without such a row.
BestOfOtherRows(k) ==
    IF OtherRowsWithText(k) = {} THEN 0
    ELSE LET sims == {calculate_text_similarity(TextOf(k), dbRows[j].text) :
                         j \in OtherRowsWithText(k)}
         IN  RoundPercent(CHOOSE s \in sims : \A t \in sims : ~Greater(t, s))

C20_EveryTextGetsScore ==
    Done =>
        \A k \in DOMAIN result :
            HasText(k)
            => /\ IsSome(result[k].plagerism_score)
               /\ (WebFailed(k) /\ AcademicFailed(k))
                  => result[k].plagerism_score = Some(internalLog[k])

\* C22: in one run each lookup is called at most once per submission, a
\* failed one included, and exactly once for every submission with text
\* that the loop evaluates.
C22_SinglePassNoRetry ==
    /\ \A k \in Ids : webCalls[k] <= 1 /\ acadCalls[k] <= 1
    /\ (Done /\ path = "checked")
       => \A k \in DOMAIN result :
             HasText(k) => (webCalls[k] = 1 /\ acadCalls[k] = 1)

\* A run has returned in which one lookup of a submission failed inside the
\* lookup or raised, and was called once.
C22_Witness ==
    /\ Done
    /\ path = "checked"
    /\ \E k \in DOMAIN result :
          /\ WebFailed(k) \/ AcademicFailed(k)
          /\ webCalls[k] = 1
          /\ acadCalls[k] = 1

\* The similarities, as exact fractions, that feed the score of the k-th
\* input submission: to every other downloaded text, and to every result of
\* a lookup that returned and whose similarity is above 0.1.
SourceSimilarities(k, log, index) ==
    IF log[k] = "ok"
    THEN {s \in {calculate_text_similarity(Lower(TextOf(k)), Lower(index[j].text)) :
                    j \in {j \in DOMAIN index : j <= MAX_RESULTS}} : 10 * s.n > s.d}
    ELSE {}

ExactSimilarities(k) ==
    PeerSimilarities(k) \cup SourceSimilarities(k, webLog, webIndex)
                        \cup SourceSimilarities(k, acadLog, acadIndex)

\* h hundredths of a percent is the similarity f, as a percentage, rounded
\* to 2 decimals: no number with 2 decimals is nearer.
IsRoundedTo2(h, f) ==
    LET diff == h * f.d - f.n * 100 * Hundredths
    IN  2 * (IF diff < 0 THEN 0 - diff ELSE diff) <= f.d

\* C24: the plagiarism score of an outcome is the largest of the
\* similarities of its three signals, as a percentage rounded to 2 decimals.
C24_ScoreRoundedTo2 ==
    Done =>
        \A k \in DOMAIN result :
            (HasText(k) /\ IsSome(result[k].plagerism_score))
            => LET exact == ExactSimilarities(k)
               IN  IF exact = {} THEN result[k].plagerism_score = Some(0)
                   ELSE IsRoundedTo2(result[k].plagerism_score.val,
                                     CHOOSE s \in exact :
                                         \A t \in exact : ~Greater(t, s))

\* An outcome whose largest similarity, 2/3, has no exact value with 2
\* decimals and is rounded up to 66.67.
C24_Witness ==
    /\ Done
    /\ \E k \in DOMAIN result :
          /\ HasText(k)
          /\ result[k].plagerism_score = Some(6667)
          /\ [n |-> 2, d |-> 3] \in ExactSimilarities(k)

\* C25: on every return the submission id, the file URL and the text of
\* every outcome are those of the input submission.
C25_IdentityFieldsKept ==
    Done =>
        \A k \in DOMAIN result :
            /\ k \in DOMAIN submissions
            /\ result[k].submission_id = submissions[k].submission_id
            /\ result[k].file_url = submissions[k].file_url
            /\ result[k].file_content = submissions[k].file_content

\* An outcome whose score, grade and sources were all set by the check.
C25_Witness ==
    /\ Done
    /\ path = "checked"
    /\ \E k \in DOMAIN result :
          /\ HasText(k)
          /\ IsSome(submissions[k].total_score)
          /\ result[k].total_score # submissions[k].total_score
          /\ IsSome(result[k].web_sources)
          /\ IsSome(result[k].academic_sources)
          /\ result[k].file_content = submissions[k].file_content

\* The rows of the assignment that are not among the submissions under
\* grading and whose file has text.
OutsideRowsWithText ==
    {j \in DOMAIN dbRows :
        /\ \A m \in DOMAIN submissions : submissions[m].submission_id # dbRows[j].id
        /\ IsSome(dbRows[j].file_url)
        /\ dbRows[j].dl_ok
        /\ dbRows[j].text # << >>}

\* C26: whenever the check computes scores, the internal score of a graded
\* submission with text is at least its similarity to every submission of
\* the assignment outside the graded set, and no submission outside the
\* graded set gets an outcome.
C26_PeersAreAllSubmissions ==
    (Done /\ path # "failopen")
    => /\ \A k \in DOMAIN result :
             HasText(k)
             => \A j \in OutsideRowsWithText :
                   internalLog[k] >=
                       RoundPercent(calculate_text_similarity(TextOf(k), dbRows[j].text))
       /\ \A k \in DOMAIN result : \A j \in OutsideRowsWithText :
             result[k].submission_id # dbRows[j].id

\* The only graded submission has the text of a submission outside the
\* graded set: it is scored 100.0 and its grade is zeroed.
C26_Witness ==
    /\ Done
    /\ path = "checked"
    /\ Len(result) = 1
    /\ HasText(1)
    /\ \E j \in OutsideRowsWithText : dbRows[j].text = TextOf(1)
    /\ internalLog[1] = 100 * Hundredths
    /\ IsSome(submissions[1].total_score)
    /\ result[1].total_score.val.total_score = 0

\* C23: a run in which the evaluation itself raised does not return a
\* result list: the error surfaces to the caller.
C23_ViolationSurfaces == raised = "evaluation" => ~Done

\* C30: without a client, without rows, and after any exception that
\* reaches the except clause, the check returns the input submissions as
\* they were: no score, no sources, the grade of the grader.
C30_FailOpenReturnsInput ==
    Done =>
        /\ (dbStatus = "no_client" \/ QueryData = << >> \/ raised # "")
           => path = "failopen"
        /\ path = "failopen"
           => /\ result = submissions
              /\ \A k \in DOMAIN result :
                    /\ result[k].plagerism_score = None
                    /\ result[k].web_sources = None
                    /\ result[k].academic_sources = None
                    /\ result[k].total_score = planned[k].total_score

\* The loop had zeroed the grade of the first submission when a statement
\* raised on the second: the returned list is the input, grade included.
C30_Witness ==
    /\ Done
    /\ raised = "evaluation"
    /\ path = "failopen"
    /\ Len(updated_submissions) >= 1
    /\ IsSome(submissions[1].total_score)
    /\ updated_submissions[1].total_score # submissions[1].total_score
    /\ result[1].total_score = submissions[1].total_score
    /\ result[1].total_score.val.total_score > 0

\* QDRANT_URL and QDRANT_API_KEY are both set.
QdrantConfigured == acadEnv.qdrant_url /\ acadEnv.qdrant_api_key

\* What a DuckDuckGo search attaches to the k-th submission.
DdgSourcesOf(k) ==
    IF webEnv.ddg.status = "ok"
    THEN MatchSources(TextOf(k), Take(webEnv.ddg.results, MAX_RESULTS))
    ELSE << >>

\* C21 as stated: a lookup whose service is not configured (no SerpAPI key;
\* no Qdrant URL or API key) attaches no source.
C21_UnconfiguredGivesNoSources ==
    Done =>
        \A k \in DOMAIN result :
            /\ ~webEnv.serpapi_key => result[k].web_sources = None
            /\ ~QdrantConfigured => result[k].academic_sources = None

\* C21 as the code has it: without the Qdrant settings the academic lookup
\* attaches no source, as a failed one does; without a SerpAPI key the web
\* lookup attaches what DuckDuckGo finds, nothing if DuckDuckGo fails.  The
\* run returns its outcomes, and every score is the largest of the internal
\* percentage and the similarities of the sources attached.
C21_UnconfiguredLookups ==
    Done =>
        /\ path = "checked"
        /\ raised = ""
        /\ \A k \in DOMAIN result :
              /\ ~QdrantConfigured => result[k].academic_sources = None
              /\ ~webEnv.serpapi_key
                 => result[k].web_sources = NoneIfEmpty(DdgSourcesOf(k))
              /\ result[k].plagerism_score =
                     Some(Max3(internalLog[k], BestOfAttached(result[k].web_sources),
                               BestOfAttached(result[k].academic_sources)))

\* Without a SerpAPI key and without the Qdrant settings, while the
\* knowledge base holds a matching document: the web source found by
\* DuckDuckGo is attached, no academic source is, and the score is the
\* one of the web source.
C21_Witness ==
    /\ Done
    /\ ~webEnv.serpapi_key
    /\ ~QdrantConfigured
    /\ acadEnv.qdrant = Answer("ok", <<DocD>>)
    /\ \E k \in DOMAIN result :
          /\ IsSome(result[k].web_sources)
          /\ result[k].academic_sources = None
          /\ internalLog[k] < BestOfAttached(result[k].web_sources)
          /\ result[k].plagerism_score = Some(BestOfAttached(result[k].web_sources))

\* C27: the nodes run in the order fetch_submission_ids, fetch_rubric,
\* fetch_questions, download_and_parse_files, grade_submissions,
\* check_plagiarism and then the graph ends; the check starts only after the
\* grading, and what the graph returns is what the check returned, every
\* score above the threshold with grade 0.
C27_FixedLinearOrder ==
    /\ ran = Take(StageOrder, Len(ran))
    /\ stage = IF Len(ran) < Len(StageOrder) THEN StageOrder[Len(ran) + 1] ELSE "END"
    /\ pc # "start" => \E n \in DOMAIN ran : ran[n] = "grade_submissions"
    /\ stage = "END"
       => /\ submissions = result
          /\ \A k \in DOMAIN submissions :
                (/\ IsSome(submissions[k].plagerism_score)
                 /\ submissions[k].plagerism_score.val > Threshold)
                => /\ IsSome(submissions[k].total_score)
                   /\ submissions[k].total_score.val.total_score = 0

\* The graph has ended, and a submission the grader gave 85.0 is returned
\* with a score above the threshold and grade 0.
C27_Witness ==
    /\ stage = "END"
    /\ \E k \in DOMAIN submissions :
          /\ planned[k].total_score = Some(AiGrade)
          /\ IsSome(submissions[k].plagerism_score)
          /\ submissions[k].plagerism_score.val > Threshold
          /\ submissions[k].total_score.val.total_score = 0

\* C28: every row /grade-assignment writes whose plagiarism score is above
\* 40.0 has grade 0, whatever grade the graph's result carried, and the
\* score written is the one of the result.
C28_PersistedGradeForced ==
    \A j \in DOMAIN written :
        /\ written[j].plagiarism_score = result[written[j].id].plagerism_score
        /\ (/\ IsSome(written[j].plagiarism_score)
            /\ written[j].plagiarism_score.val > 40 * Hundredths)
           => written[j].grade = 0

\* A row written with grade 0 for a submission whose result carried grade
\* 85.0 with a score above 40.0.
C28_Witness ==
    \E j \in DOMAIN written :
        /\ written[j].grade = 0
        /\ IsSome(written[j].plagiarism_score)
        /\ written[j].plagiarism_score.val > 40 * Hundredths
        /\ result[written[j].id].total_score.val.total_score = Some(8500)

\* The k-th element of the result has no grade.
NoGradeInResult(k) ==
    IF result[k].format = "unknown" THEN FALSE
    ELSE IF ~IsSome(result[k].total_score) THEN TRUE
    ELSE IF result[k].total_score.val.format = "unknown" THEN FALSE
    ELSE ~IsSome(result[k].total_score.val.total_score)

\* C29: when the loop is over, graded_count + failed_count is the number
\* of submissions in the result, every submission was written at most once
\* and counted as graded exactly if it was written, and for a submission
\* without a grade nothing was written, its plagiarism score included.
C29_EachCountedOnce ==
    pc = "responded"
    => /\ graded_count + failed_count = Len(result)
       /\ graded_count = Len(written)
       /\ \A j, m \in DOMAIN written : written[j].id = written[m].id => j = m
       /\ \A k \in DOMAIN result :
             NoGradeInResult(k) => \A j \in DOMAIN written : written[j].id # k
       /\ failed_count >= Cardinality({k \in DOMAIN result : NoGradeInResult(k)})

\* A result of two submissions: the first has a score and no grade and is
\* counted as failed, the second is written and counted as graded.
C29_Witness ==
    /\ pc = "responded"
    /\ Len(result) = 2
    /\ NoGradeInResult(1)
    /\ IsSome(result[1].plagerism_score)
    /\ Len(written) = 1
    /\ written[1].id = 2
    /\ graded_count = 1
    /\ failed_count = 1

\* ------------------------------------ claims on calculate_text_similarity

Returned == simPc = "returned"

\* Equality, and the values 0.0 and 1.0, of similarities.
FracEq(a, b) == a.n * b.d = b.n * a.d
IsZero(f) == f.n = 0
IsOne(f) == f.n = f.d

\* T(text): the set of maximal runs of non-blank characters of the text in
\* lower case.
LowerCaseOf == [c \in SimAlphabet |-> IF c = "B" THEN "b" ELSE c]

Tokens(text) ==
    LET l == [k \in DOMAIN text |-> LowerCaseOf[text[k]]]
        Blank(k) == l[k] = " "
        Runs == {ab \in (DOMAIN l) \X (DOMAIN l) :
                    /\ ab[1] <= ab[2]
                    /\ \A k \in ab[1] .. ab[2] : ~Blank(k)
                    /\ IF ab[1] = 1 THEN TRUE ELSE Blank(ab[1] - 1)
                    /\ IF ab[2] = Len(l) THEN TRUE ELSE Blank(ab[2] + 1)}
    IN  {SubSeq(l, ab[1], ab[2]) : ab \in Runs}

\* C14: calculate_text_similarity(a, b) equals calculate_text_similarity(b, a)
\* for every pair of texts.
C14_Symmetric ==
    Returned => FracEq(simReturn, calculate_text_similarity(text2.val, text1.val))

\* A returned similarity strictly between 0 and 1 of two texts with
\* different numbers of tokens.
C14_Witness ==
    /\ Returned
    /\ simReturn.n > 0
    /\ simReturn.n < simReturn.d
    /\ Cardinality(Tokens(text1.val)) # Cardinality(Tokens(text2.val))

\* C15: every value calculate_text_similarity returns lies between 0.0 and
\* 1.0 inclusive.
C15_BetweenZeroAndOne ==
    Returned => (simReturn.d > 0 /\ 0 <= simReturn.n /\ simReturn.n <= simReturn.d)

\* The bound 1.0 is returned for two texts that differ and hold the same
\* two tokens.
C15_Witness ==
    /\ Returned
    /\ text1 # text2
    /\ IsOne(simReturn)
    /\ Cardinality(Tokens(text1.val)) = 2

\* C16 as stated: similarity(x, x) is 1.0 for every non-empty text x.
C16_SelfSimilarityNonEmpty ==
    (Returned /\ text1 = text2 /\ text1.val # << >>) => IsOne(simReturn)

\* C16, amended: similarity(x, x) is 1.0 for every text x that holds at least
\* one token, and 0.0 for a text of blanks only.
C16_SelfSimilarityWithToken ==
    (Returned /\ text1 = text2)
    => IF Tokens(text1.val) # {} THEN IsOne(simReturn) ELSE IsZero(simReturn)

\* A text in upper case with a blank compared with itself.
C16_Witness ==
    /\ Returned
    /\ text1 = text2
    /\ \E k \in DOMAIN text1.val : text1.val[k] = "B"
    /\ \E k \in DOMAIN text1.val : text1.val[k] = " "
    /\ IsOne(simReturn)

\* C17: calculate_text_similarity(a, b) is |T(a) \cap T(b)| / |T(a) \cup T(b)|,
\* T being the set of whitespace-separated tokens of the lower-cased text, and
\* 0.0 when the union is empty or one of the texts has no token.
C17_JaccardOfTokenSets ==
    Returned =>
        LET T1 == Tokens(text1.val)
            T2 == Tokens(text2.val)
        IN  /\ IF T1 \cup T2 = {} THEN IsZero(simReturn)
               ELSE FracEq(simReturn, [n |-> Cardinality(T1 \cap T2),
                                       d |-> Cardinality(T1 \cup T2)])
            /\ (T1 = {} \/ T2 = {}) => IsZero(simReturn)

\* Two texts that differ in case and word order and hold the same two
\* tokens.
C17_Witness ==
    /\ Returned
    /\ text1 # text2
    /\ Len(text1.val) = 3
    /\ Len(text2.val) = 3
    /\ text1.val[1] = "a"
    /\ text2.val[1] # "a"
    /\ \E k \in DOMAIN text1.val : text1.val[k] = "B"
    /\ \E k \in DOMAIN text2.val : text2.val[k] = "b"
    /\ IsOne(simReturn)

\* C18: a call of calculate_text_similarity with an empty or an absent text
\* ends without error and returns 0.0.
C18_AbsentTextGivesZero ==
    (/\ simPc # "call"
     /\ IF IsSome(text1) /\ IsSome(text2)
        THEN text1.val = << >> \/ text2.val = << >>
        ELSE TRUE)
    => (Returned /\ IsZero(simReturn))

=============================================================================
